---------------------------- MODULE Spec2Model ----------------------------
(***************************************************************************)
(* Model of clevo-indicator's fan-curve script (src/main.py): the three    *)
(* duty-cycle curves ec_auto_duty_adjust, fan_curve and sigmoid_curve, and *)
(* the module-level driver that samples them for temperatures 0..99 and    *)
(* plots the sigmoid series.                                               *)
(*                                                                         *)
(* Numbers.  Python's float results are modelled in fixed point:           *)
(*   - fan_curve works in fifths of a percent (FanUnit), which represents  *)
(*     temp/5 exactly for an integer temp;                                 *)
(*   - sigmoid_curve works in thousandths of a percent (SigUnit) on top of *)
(*     a fixed-point math.exp whose argument is a whole number of tenths.  *)
(***************************************************************************)
EXTENDS Integers, Sequences, FiniteSets

VARIABLES
    \* ---- the driver (module-level code, main.py:34-47)
    pc,         \* position of the script
    i,          \* loop variable of "for i in range(100)"
    old,        \* series of ec_auto_duty_adjust results
    curve,      \* series of fan_curve results
    sig_curve,  \* series of sigmoid_curve results
    dutyArgs,   \* history: the duty arguments the driver has passed so far
    figures,    \* number of figures created by plt.figure()
    plotted,    \* lines drawn on the figure by plt.plot()
    legend,     \* whether plt.legend() has run
    window,     \* the viewer window: "none", "open" or "closed"
    \* ---- one caller of an exposed curve function
    fn,         \* function the caller uses: "none", "step", "fan" or "sig"
    caller,     \* call site: "driver" (main.py:38-40) or "external"
    temp,       \* argument temp
    duty,       \* argument duty of the latest call
    x50L,       \* argument x50L (sigmoid_curve only)
    x50U,       \* argument x50U (sigmoid_curve only)
    ret,        \* outcome of the latest call, NoCall before the first
    n,          \* number of calls made
    changes     \* closed loop: how often the applied duty has changed

driverVars == <<pc, i, old, curve, sig_curve, dutyArgs, figures, plotted,
                legend, window>>
callVars == <<fn, caller, temp, duty, x50L, x50U, ret, n, changes>>
vars == <<pc, i, old, curve, sig_curve, dutyArgs, figures, plotted, legend,
          window, fn, caller, temp, duty, x50L, x50U, ret, n, changes>>

Min(a, b) == IF a <= b THEN a ELSE b
Max(a, b) == IF a >= b THEN a ELSE b
Abs(a) == IF a < 0 THEN 0 - a ELSE a

\* range(100) at main.py:37
NumSamples == 100
\* the literal duty the driver passes in every call (main.py:38-40)
DriverDuty == 0
\* default thresholds of sigmoid_curve (main.py:29)
X50L_Default == 50
X50U_Default == 60

\* ---- bounds of the argument sets the callers draw from
MaxTempBelow == 5       \* step/fan temperatures start at -MaxTempBelow
MaxTempAbove == 105     \* ... and end at MaxTempAbove
MaxDutyBelow == 2       \* duties start at -MaxDutyBelow
MaxDutyAbove == 102     \* ... and end at MaxDutyAbove
MaxAdjust == 3          \* closed loop: number of successive adjustments
MaxSigTempBelow == 720  \* sigmoid temperatures start at -MaxSigTempBelow
MaxThresholdShift == 1  \* thresholds range this far around the defaults
MaxSigDuty == 1         \* sigmoid duties are 0..MaxSigDuty

Temps == (0 - MaxTempBelow)..MaxTempAbove
Duties == (0 - MaxDutyBelow)..MaxDutyAbove
SigTemps == (0 - MaxSigTempBelow)..MaxTempAbove
SigDuties == 0..MaxSigDuty
\* spreads |x50L - x50U| for which the exponent is a whole number of tenths
GridSpreads == {0, 1, 2, 5, 10}
Thresholds ==
    LET T == (X50L_Default - MaxThresholdShift)..(X50U_Default + MaxThresholdShift)
    IN  {lu \in T \X T : Abs(lu[1] - lu[2]) \in GridSpreads}

\* ret before any call has returned
NoCall == [err |-> "nocall"]
\* a call that returned v
Value(v) == [err |-> "none", val |-> v]
\* a call that raised exception e to its caller
Raised(e) == [err |-> e]

---------------------------------------------------------------------------
(* 4.1 step curve, main.py:5-23 *)

\* mutant: the temp >= 70 rule is tested before the temp >= 80 rule
ec_rules_reordered(t, d) ==
    IF t >= 70 /\ d < 60 THEN 50
    ELSE IF t >= 80 /\ d < 100 THEN 100
    ELSE IF t >= 65 /\ d < 40 THEN 20
    ELSE IF t >= 50 /\ d < 20 THEN 10
    ELSE IF t <= 45 /\ d > 0 THEN 0
    ELSE IF t <= 55 /\ d > 20 THEN 20
    ELSE IF t <= 65 /\ d > 40 THEN 40
    ELSE IF t <= 75 /\ d > 60 THEN 60
    ELSE -1

\* mutant: the first guard reads duty <= 100
ec_first_guard_le(t, d) ==
    IF t >= 80 /\ d <= 100 THEN 100
    ELSE IF t >= 70 /\ d < 60 THEN 50
    ELSE IF t >= 65 /\ d < 40 THEN 20
    ELSE IF t >= 50 /\ d < 20 THEN 10
    ELSE IF t <= 45 /\ d > 0 THEN 0
    ELSE IF t <= 55 /\ d > 20 THEN 20
    ELSE IF t <= 65 /\ d > 40 THEN 40
    ELSE IF t <= 75 /\ d > 60 THEN 60
    ELSE -1

\* mutant: the temp >= 50 guard reads duty <= 20
ec_fourth_guard_le(t, d) ==
    IF t >= 80 /\ d < 100 THEN 100
    ELSE IF t >= 70 /\ d < 60 THEN 50
    ELSE IF t >= 65 /\ d < 40 THEN 20
    ELSE IF t >= 50 /\ d <= 20 THEN 10
    ELSE IF t <= 45 /\ d > 0 THEN 0
    ELSE IF t <= 55 /\ d > 20 THEN 20
    ELSE IF t <= 65 /\ d > 40 THEN 40
    ELSE IF t <= 75 /\ d > 60 THEN 60
    ELSE -1

ec_auto_duty_adjust(t, d) ==
    IF t >= 80 /\ d < 100 THEN 100
    ELSE IF t >= 70 /\ d < 60 THEN 50
    ELSE IF t >= 65 /\ d < 40 THEN 20
    ELSE IF t >= 50 /\ d < 20 THEN 10
    ELSE IF t <= 45 /\ d > 0 THEN 0
    ELSE IF t <= 55 /\ d > 20 THEN 20
    ELSE IF t <= 65 /\ d > 40 THEN 40
    ELSE IF t <= 75 /\ d > 60 THEN 60
    ELSE -1

---------------------------------------------------------------------------
(* 4.2 linear ramp, main.py:26-27.  Values are in fifths of a percent, so  *)
(* that the true division temp/5 of an integer temp is exact: temp/5 is    *)
(* temp fifths.                                                            *)

\* the divisor of temp/5, and so the number of fixed-point units per percent
FanUnit == 5

\* mutant: temp/5 as a floor division (temp // 5)
fan_curve_floor_div(t, d) ==
    LET q == (t \div 5) * FanUnit
    IN  Min(Max(q * 10 - 60 * FanUnit, 0 * FanUnit), 100 * FanUnit)

fan_curve(t, d) ==
    LET q == (t * FanUnit) \div 5       \* temp/5
    IN  Min(Max(q * 10 - 60 * FanUnit, 0 * FanUnit), 100 * FanUnit)

---------------------------------------------------------------------------
(* 4.3 sigmoid, main.py:29-32.                                             *)
(*                                                                         *)
(* math.exp is modelled in fixed point for arguments that are a whole      *)
(* number of tenths.  exp(-k/10) is ExpNegTenths(k)/ExpScale, computed as  *)
(* exp(-1)^(k div 10) * exp(-0.1)^(k mod 10) by repeated truncating        *)
(* multiplication with 1001/2721 (a convergent of exp(-1), relative error  *)
(* 4e-8) and 561/620 (a convergent of exp(-0.1), relative error 1.4e-6);   *)
(* exp(k/10) is its reciprocal.  Exp returns the value as a fraction       *)
(* <<p, q>> = p/q, or raises OverflowError above the largest argument      *)
(* whose exponential is a double.                                          *)

ExpScale == 1000 * 1000

\* math.exp(x) raises OverflowError for x > ln(DBL_MAX) = 709.78...: the
\* largest whole number of tenths it accepts
ExpMaxTenths == 7097

\* x * (num/den)^times, truncated after every multiplication
RECURSIVE Scaled(_, _, _, _)
Scaled(x, num, den, times) ==
    IF times = 0 THEN x
    ELSE Scaled((x * num) \div den, num, den, times - 1)

ExpNegTenths(k) ==
    IF k >= 200 THEN 0                  \* below the fixed-point resolution
    ELSE Scaled(Scaled(ExpScale, 1001, 2721, k \div 10), 561, 620, k % 10)

Exp(tenths) ==
    IF tenths > ExpMaxTenths THEN Raised("OverflowError")
    ELSE IF tenths > 0 THEN Value(<<ExpScale, ExpNegTenths(tenths)>>)
    ELSE Value(<<ExpNegTenths(0 - tenths), ExpScale>>)

\* thousandths of a percent per percent
SigUnit == 1000

\* 1/(1 + p/q) * 100 = 100*q/(p + q), in SigUnit-ths, by long division
Logistic(p, q) ==
    LET whole == (100 * q) \div (p + q)
        rest == (100 * q) % (p + q)
    IN  whole * SigUnit + (rest * SigUnit) \div (p + q)

\* mutant: the spread is guarded against zero, b = 2 / max(|x50L-x50U|, 1)
sigmoid_curve_guarded(t, d, L, U) ==
    LET spread == Max(Abs(L - U), 1)
        e == Exp((5 * ((L + U) + 20 - 2 * t)) \div spread)
    IN  IF e.err # "none" THEN e
        ELSE Value(Logistic(e.val[1], e.val[2]))

\* mutant: the disabled formula of main.py:32, exp(b * -(temp - a))
sigmoid_curve_alternate(t, d, L, U) ==
    IF Abs(L - U) = 0 THEN Raised("ZeroDivisionError")
    ELSE LET e == Exp((10 * ((L + U) - 2 * t)) \div Abs(L - U))
         IN  IF e.err # "none" THEN e
             ELSE Value(Logistic(e.val[1], e.val[2]))

\* a = (x50L + x50U)/2 is (L + U) halves; b = 2/|x50L - x50U| divides by
\* zero for equal thresholds; the exponent b/2 * -(temp - (a + 10)) is
\* ((L + U) + 20 - 2*temp) / (2*|L - U|), i.e. 5*((L + U) + 20 - 2*temp)/|L - U|
\* tenths, a whole number for the spreads of GridSpreads.
sigmoid_curve(t, d, L, U) ==
    IF Abs(L - U) = 0 THEN Raised("ZeroDivisionError")
    ELSE LET e == Exp((5 * ((L + U) + 20 - 2 * t)) \div Abs(L - U))
         IN  IF e.err # "none" THEN e
             ELSE Value(Logistic(e.val[1], e.val[2]))

---------------------------------------------------------------------------
(* States in which the driver / the caller does not take part. *)

DriverIdle ==
    /\ pc = "idle"
    /\ i = 0
    /\ old = << >>
    /\ curve = << >>
    /\ sig_curve = << >>
    /\ dutyArgs = {}
    /\ figures = 0
    /\ plotted = << >>
    /\ legend = FALSE
    /\ window = "none"

CallerIdle ==
    /\ fn = "none"
    /\ caller = "none"
    /\ temp = 0
    /\ duty = 0
    /\ x50L = 0
    /\ x50U = 0
    /\ ret = NoCall
    /\ n = 0
    /\ changes = 0

---------------------------------------------------------------------------
(* A caller of the step curve.  The first Adjust is the call with the      *)
(* drawn arguments; each later one passes back, as the current duty, the   *)
(* duty that results from the previous call (the returned target, or the   *)
(* unchanged duty on the sentinel -1) at the same temperature.             *)

StepInit ==
    /\ DriverIdle
    /\ fn = "step"
    /\ caller = "external"
    /\ temp \in Temps
    /\ duty \in Duties
    /\ x50L = 0
    /\ x50U = 0
    /\ ret = NoCall
    /\ n = 0
    /\ changes = 0

\* the duty in effect after the latest call
Applied == IF n = 0 \/ ret.val = -1 THEN duty ELSE ret.val

Adjust ==
    /\ fn = "step"
    /\ n < MaxAdjust
    /\ duty' = Applied
    /\ ret' = Value(ec_auto_duty_adjust(temp, Applied))
    /\ n' = n + 1
    /\ changes' = IF n > 0 /\ Applied # duty THEN changes + 1 ELSE changes
    /\ UNCHANGED <<fn, caller, temp, x50L, x50U>>
    /\ UNCHANGED driverVars

StepNext == Adjust

StepSpec == StepInit /\ [][StepNext]_vars

---------------------------------------------------------------------------
(* A caller of the linear ramp: one call with the drawn arguments. *)

FanInit ==
    /\ DriverIdle
    /\ fn = "fan"
    /\ caller = "external"
    /\ temp \in Temps
    /\ duty \in Duties
    /\ x50L = 0
    /\ x50U = 0
    /\ ret = NoCall
    /\ n = 0
    /\ changes = 0

CallFan ==
    /\ fn = "fan"
    /\ n = 0
    /\ ret' = Value(fan_curve(temp, duty))
    /\ n' = 1
    /\ UNCHANGED <<fn, caller, temp, duty, x50L, x50U, changes>>
    /\ UNCHANGED driverVars

FanNext == CallFan

FanSpec == FanInit /\ [][FanNext]_vars

---------------------------------------------------------------------------
(* A caller of the sigmoid: one call, either from the driver's call site   *)
(* (main.py:40: a sample temperature, duty 0, the default thresholds) or   *)
(* from an external caller with drawn arguments.                           *)

SigInit ==
    /\ DriverIdle
    /\ fn = "sig"
    /\ \/ /\ caller = "driver"
          /\ temp \in 0..(NumSamples - 1)
          /\ duty = DriverDuty
          /\ x50L = X50L_Default
          /\ x50U = X50U_Default
       \/ /\ caller = "external"
          /\ temp \in SigTemps
          /\ duty \in SigDuties
          /\ \E lu \in Thresholds : x50L = lu[1] /\ x50U = lu[2]
    /\ ret = NoCall
    /\ n = 0
    /\ changes = 0

CallSig ==
    /\ fn = "sig"
    /\ n = 0
    /\ ret' = sigmoid_curve(temp, duty, x50L, x50U)
    /\ n' = 1
    /\ UNCHANGED <<fn, caller, temp, duty, x50L, x50U, changes>>
    /\ UNCHANGED driverVars

SigNext == CallSig

SigSpec == SigInit /\ [][SigNext]_vars

---------------------------------------------------------------------------
(* 4.4 the driver, main.py:34-47.  pc names the statement about to run:    *)
(*   "for"      the loop head, for i in range(100)            (line 37)    *)
(*   "old"      old.append(ec_auto_duty_adjust(i, 0))         (line 38)    *)
(*   "curve"    curve.append(fan_curve(i, 0))                 (line 39)    *)
(*   "sig"      sig_curve.append(sigmoid_curve(i, 0))         (line 40)    *)
(*   "figure"   plt.figure()                                  (line 42)    *)
(*   "plot"     plt.plot(sig_curve, label="sigmoid")          (line 44)    *)
(*   "legend"   plt.legend()                                  (line 46)    *)
(*   "show"     plt.show()                                    (line 47)    *)
(*   "blocked"  inside plt.show(), waiting for the window to be closed     *)
(*   "done"     the script has ended normally                              *)
(*   "raised"   the script has ended with an uncaught exception            *)
(* At the loop head i is the next value of range(100); in the body it is   *)
(* the loop variable.                                                      *)

Init ==
    /\ pc = "for"
    /\ i = 0
    /\ curve = << >>
    /\ sig_curve = << >>
    /\ old = << >>
    /\ dutyArgs = {}
    /\ figures = 0
    /\ plotted = << >>
    /\ legend = FALSE
    /\ window = "none"
    /\ CallerIdle

ForNext ==
    /\ pc = "for"
    /\ i < NumSamples
    /\ pc' = "old"
    /\ UNCHANGED <<i, old, curve, sig_curve, dutyArgs, figures, plotted,
                   legend, window>>
    /\ UNCHANGED callVars

ForExit ==
    /\ pc = "for"
    /\ i >= NumSamples
    /\ pc' = "figure"
    /\ UNCHANGED <<i, old, curve, sig_curve, dutyArgs, figures, plotted,
                   legend, window>>
    /\ UNCHANGED callVars

\* mutant: the previous result is fed back as the current duty
AppendOld_feedback ==
    /\ pc = "old"
    /\ LET prev == IF old = << >> THEN DriverDuty ELSE old[Len(old)]
       IN  /\ old' = Append(old, ec_auto_duty_adjust(i, prev))
           /\ dutyArgs' = dutyArgs \cup {prev}
    /\ pc' = "curve"
    /\ UNCHANGED <<i, curve, sig_curve, figures, plotted, legend, window>>
    /\ UNCHANGED callVars

AppendOld ==
    /\ pc = "old"
    /\ old' = Append(old, ec_auto_duty_adjust(i, DriverDuty))
    /\ dutyArgs' = dutyArgs \cup {DriverDuty}
    /\ pc' = "curve"
    /\ UNCHANGED <<i, curve, sig_curve, figures, plotted, legend, window>>
    /\ UNCHANGED callVars

AppendCurve ==
    /\ pc = "curve"
    /\ curve' = Append(curve, fan_curve(i, DriverDuty))
    /\ dutyArgs' = dutyArgs \cup {DriverDuty}
    /\ pc' = "sig"
    /\ UNCHANGED <<i, old, sig_curve, figures, plotted, legend, window>>
    /\ UNCHANGED callVars

\* an exception of sigmoid_curve is not caught: it ends the script
AppendSig ==
    /\ pc = "sig"
    /\ dutyArgs' = dutyArgs \cup {DriverDuty}
    /\ LET r == sigmoid_curve(i, DriverDuty, X50L_Default, X50U_Default)
       IN  IF r.err = "none"
           THEN /\ sig_curve' = Append(sig_curve, r.val)
                /\ i' = i + 1
                /\ pc' = "for"
           ELSE /\ pc' = "raised"
                /\ UNCHANGED <<i, sig_curve>>
    /\ UNCHANGED <<old, curve, figures, plotted, legend, window>>
    /\ UNCHANGED callVars

Figure ==
    /\ pc = "figure"
    /\ figures' = figures + 1
    /\ pc' = "plot"
    /\ UNCHANGED <<i, old, curve, sig_curve, dutyArgs, plotted, legend, window>>
    /\ UNCHANGED callVars

Plot ==
    /\ pc = "plot"
    /\ plotted' = Append(plotted, [label |-> "sigmoid", data |-> sig_curve])
    /\ pc' = "legend"
    /\ UNCHANGED <<i, old, curve, sig_curve, dutyArgs, figures, legend, window>>
    /\ UNCHANGED callVars

Legend ==
    /\ pc = "legend"
    /\ legend' = TRUE
    /\ pc' = "show"
    /\ UNCHANGED <<i, old, curve, sig_curve, dutyArgs, figures, plotted, window>>
    /\ UNCHANGED callVars

\* plt.show() opens the viewer window and blocks
Show ==
    /\ pc = "show"
    /\ window' = "open"
    /\ pc' = "blocked"
    /\ UNCHANGED <<i, old, curve, sig_curve, dutyArgs, figures, plotted, legend>>
    /\ UNCHANGED callVars

\* the user dismisses the viewer window
CloseWindow ==
    /\ window = "open"
    /\ window' = "closed"
    /\ UNCHANGED <<pc, i, old, curve, sig_curve, dutyArgs, figures, plotted,
                   legend>>
    /\ UNCHANGED callVars

\* mutant: a non-blocking show, plt.show(block=False)
ShowReturn_nonblocking ==
    /\ pc = "blocked"
    /\ pc' = "done"
    /\ UNCHANGED <<i, old, curve, sig_curve, dutyArgs, figures, plotted,
                   legend, window>>
    /\ UNCHANGED callVars

\* plt.show() returns once the window is closed; the script then ends
ShowReturn ==
    /\ pc = "blocked"
    /\ window = "closed"
    /\ pc' = "done"
    /\ UNCHANGED <<i, old, curve, sig_curve, dutyArgs, figures, plotted,
                   legend, window>>
    /\ UNCHANGED callVars

\* the steps of the script itself
Step ==
    \/ ForNext
    \/ ForExit
    \/ AppendOld
    \/ AppendCurve
    \/ AppendSig
    \/ Figure
    \/ Plot
    \/ Legend
    \/ Show
    \/ ShowReturn

Next == Step \/ CloseWindow

Spec == Init /\ [][Next]_vars

\* The script is the only thread of a running process: a statement that can
\* run does run.  Nothing obliges the user to close the window.
FairSpec == Spec /\ WF_vars(Step)

---------------------------------------------------------------------------
(* The rule table of the step curve as the specification prints it: one    *)
(* row per rule, in the order of the table.  A row holds for temp >= t     *)
(* (dir "ge", the increasing ladder) or temp <= t (dir "le", the           *)
(* decreasing ladder) together with duty < d resp. duty > d.               *)

RuleTable ==
    << [dir |-> "ge", t |-> 80, d |-> 100, r |-> 100],
       [dir |-> "ge", t |-> 70, d |-> 60,  r |-> 50],
       [dir |-> "ge", t |-> 65, d |-> 40,  r |-> 20],
       [dir |-> "ge", t |-> 50, d |-> 20,  r |-> 10],
       [dir |-> "le", t |-> 45, d |-> 0,   r |-> 0],
       [dir |-> "le", t |-> 55, d |-> 20,  r |-> 20],
       [dir |-> "le", t |-> 65, d |-> 40,  r |-> 40],
       [dir |-> "le", t |-> 75, d |-> 60,  r |-> 60] >>

RowHolds(row, t, d) ==
    IF row.dir = "ge" THEN t >= row.t /\ d < row.d
                      ELSE t <= row.t /\ d > row.d

RowsHolding(t, d) == {k \in DOMAIN RuleTable : RowHolds(RuleTable[k], t, d)}

\* index of the first row that holds, 0 when none does
FirstRow(t, d) ==
    IF RowsHolding(t, d) = {} THEN 0
    ELSE CHOOSE k \in RowsHolding(t, d) : \A m \in RowsHolding(t, d) : k <= m

FirstMatch(t, d) == IF FirstRow(t, d) = 0 THEN -1 ELSE RuleTable[FirstRow(t, d)].r

StepResults == {-1, 0, 10, 20, 40, 50, 60, 100}

StepReturned == fn = "step" /\ n >= 1

\* C1: every call of ec_auto_duty_adjust returns the result of the first
\* row of the rule table whose condition holds for its arguments, and the
\* sentinel -1 exactly when no row holds; the result is always one of
\* -1, 0, 10, 20, 40, 50, 60, 100.
C1_FirstMatchWins ==
    StepReturned =>
        /\ ret.val = FirstMatch(temp, duty)
        /\ (ret.val = -1) <=> (RowsHolding(temp, duty) = {})
        /\ ret.val \in StepResults

\* C1 witness: a call at temp = 80, where the rows temp >= 80, temp >= 70,
\* temp >= 65 and temp >= 50 all hold, has returned the first row's 100.
C1_Witness ==
    /\ StepReturned
    /\ temp = 80
    /\ duty = 0
    /\ Cardinality(RowsHolding(temp, duty)) = 4
    /\ ret.val = 100

\* C2: for a duty of 100 or more ec_auto_duty_adjust never returns 100;
\* ec_auto_duty_adjust(90, 100) returns -1.
C2_NoFullDutyAtFullDuty ==
    StepReturned =>
        /\ duty >= 100 => ret.val # 100
        /\ (temp = 90 /\ duty = 100) => ret.val = -1

\* C2 witness: the call ec_auto_duty_adjust(90, 100) has returned -1.
C2_Witness ==
    /\ StepReturned
    /\ temp = 90
    /\ duty = 100
    /\ ret.val = -1

\* C3 as stated: ec_auto_duty_adjust(60, 10) returns -1,
\* ec_auto_duty_adjust(80, 0) returns 100 and ec_auto_duty_adjust(45, 50)
\* returns 0.
C3_Examples ==
    StepReturned =>
        /\ (temp = 60 /\ duty = 10) => ret.val = -1
        /\ (temp = 80 /\ duty = 0) => ret.val = 100
        /\ (temp = 45 /\ duty = 50) => ret.val = 0

\* C9 as stated: when a row of the increasing ladder (temp >= threshold)
\* produces the result, the current duty is strictly below the returned
\* target, and when a row of the decreasing ladder (temp <= threshold)
\* produces it, the current duty is strictly above the returned target.
C9_LadderDirections ==
    (StepReturned /\ FirstRow(temp, duty) # 0) =>
        IF RuleTable[FirstRow(temp, duty)].dir = "ge"
        THEN duty < ret.val
        ELSE duty > ret.val

\* C10: at a fixed temperature the step curve settles after one
\* adjustment: a call that gets the previous call's non-sentinel result as
\* its duty returns -1 or that same duty again, so the duty in effect
\* changes at most once however long the loop runs.
C10_SettlesAfterOneAdjustment ==
    (fn = "step" /\ n >= 2) =>
        /\ ret.val \in {-1, duty}
        /\ Applied = duty
        /\ changes <= 1

\* C10 witness: the first call changed the duty (it returned a target
\* other than -1 and other than the duty passed), and the call with that
\* target as the duty has returned.
C10_Witness ==
    /\ fn = "step"
    /\ n >= 2
    /\ changes = 1
    /\ temp = 70
    /\ duty = 50
    /\ ret.val = 50

---------------------------------------------------------------------------
Clamp(x, lo, hi) == Min(Max(x, lo), hi)

FanReturned == fn = "fan" /\ n >= 1

\* C4: fan_curve(x, duty) equals clamp((x/5)*10 - 60, 0, 100), which for
\* every integer x is clamp(2x - 60, 0, 100); it lies in 0..100, is
\* non-decreasing in x, does not depend on duty, and fan_curve(30, 0) = 0,
\* fan_curve(55, 0) = 50, fan_curve(80, 0) = 100.  (Values in FanUnit-ths.)
C4_LinearRampClamped ==
    FanReturned =>
        /\ ret.val = FanUnit * Clamp(2 * temp - 60, 0, 100)
        /\ 0 <= ret.val /\ ret.val <= 100 * FanUnit
        /\ \A x \in Temps : x <= temp => fan_curve(x, duty) <= ret.val
        /\ \A x \in Temps : x >= temp => fan_curve(x, duty) >= ret.val
        /\ \A d \in Duties : fan_curve(temp, d) = ret.val
        /\ temp = 30 => ret.val = 0
        /\ temp = 55 => ret.val = 50 * FanUnit
        /\ temp = 80 => ret.val = 100 * FanUnit

\* C4 witness: a call on the sloped part of the ramp, at a temperature that
\* is no multiple of 5 and with a non-zero duty, has returned 2*31 - 60 = 2.
C4_Witness ==
    /\ FanReturned
    /\ temp = 31
    /\ duty = 50
    /\ ret.val = 2 * FanUnit

SigReturned == fn = "sig" /\ n >= 1

---------------------------------------------------------------------------
\* the loop has been left normally
Sampled == pc \in {"figure", "plot", "legend", "show", "blocked", "done"}

\* v, in SigUnit-ths of a percent, is h hundredths of a percent when
\* rounded to two decimals
Approx(v, h) == Abs(v - 10 * h) <= 5

StrictlyIncreasing(s) == \A j \in 1..(Len(s) - 1) : s[j] < s[j + 1]

\* C6 as stated: with the default thresholds the script produces a sigmoid
\* series of exactly 100 values that is strictly increasing, whose first
\* value is approximately 0.03 and whose last is approximately 99.97.
C6_SigmoidSeriesAsStated ==
    Sampled =>
        /\ Len(sig_curve) = 100
        /\ StrictlyIncreasing(sig_curve)
        /\ Approx(sig_curve[1], 3)
        /\ Approx(sig_curve[100], 9997)

\* C6 amended: with the default thresholds the script produces a sigmoid
\* series of exactly 100 values that is strictly increasing, whose first
\* value (temp = 0) is approximately 0.15 and whose last (temp = 99) is
\* approximately 96.77.
C6_SigmoidSeries ==
    Sampled =>
        /\ Len(sig_curve) = 100
        /\ StrictlyIncreasing(sig_curve)
        /\ Approx(sig_curve[1], 15)
        /\ Approx(sig_curve[100], 9677)

\* C6 witness: the script has reached the plot with the complete series.
C6_Witness ==
    /\ pc = "plot"
    /\ Len(sig_curve) = 100
    /\ sig_curve[66] = 50 * SigUnit

\* C7: at the loop head the three series have the same length, the number
\* of temperatures processed so far; entry j of each series is that curve
\* at temp = j - 1 (the j-th temperature of 0, 1, ..., 99) with duty 0;
\* every duty the driver has passed is the literal 0, never an earlier
\* result; after the loop each series has exactly 100 entries.
C7_ParallelSeriesNoFeedback ==
    /\ pc = "for" => Len(old) = i /\ Len(curve) = i /\ Len(sig_curve) = i
    /\ \A j \in DOMAIN old : old[j] = ec_auto_duty_adjust(j - 1, 0)
    /\ \A j \in DOMAIN curve : curve[j] = fan_curve(j - 1, 0)
    /\ \A j \in DOMAIN sig_curve :
           sig_curve[j] = sigmoid_curve(j - 1, 0, 50, 60).val
    /\ dutyArgs \subseteq {0}
    /\ Sampled => Len(old) = 100 /\ Len(curve) = 100 /\ Len(sig_curve) = 100

\* C7 witness: the loop head after the iteration for temp = 80, the first
\* whose step result (100) would change a later result if it were fed back.
C7_Witness ==
    /\ pc = "for"
    /\ i = 82
    /\ Len(old) = 82
    /\ old[81] = 100
    /\ old[82] = 100

\* C8: the chart is created and shown only after all 100 samples have been
\* evaluated; exactly one line, the sigmoid series labelled "sigmoid", is
\* drawn on it; while the window is open the script is blocked in the
\* display call; the script ends normally only after the window has been
\* dismissed, and once it has been dismissed the script eventually ends.
C8_PlotThenBlockUntilDismissed ==
    /\ [](figures > 0 \/ window # "none" =>
              Len(old) = 100 /\ Len(curve) = 100 /\ Len(sig_curve) = 100)
    /\ [](/\ figures <= 1
          /\ Len(plotted) <= 1
          /\ \A k \in DOMAIN plotted :
                 plotted[k] = [label |-> "sigmoid", data |-> sig_curve])
    /\ [](window # "none" => figures = 1 /\ Len(plotted) = 1 /\ legend)
    /\ [](window = "open" => pc = "blocked")
    /\ [](pc = "done" => window = "closed")
    /\ [](pc # "raised")
    /\ (window = "closed" ~> pc = "done")

\* C8 witness: the script has ended after the window was dismissed.
C8_Witness ==
    /\ pc = "done"
    /\ window = "closed"
    /\ Len(plotted) = 1

===========================================================================
